---- MODULE Spec2Model ----
(***************************************************************************)
(* Model of ai-service/src/services/ai_service.py: the AIService life      *)
(* cycle (initialize / cleanup around the optional AsyncOpenAI client) and *)
(* the heuristic analysis _generate_mock_analysis.                         *)
(*                                                                         *)
(* Conventions                                                             *)
(*   - A client handle is a positive integer, allocated in construction    *)
(*     order; None is 0.                                                   *)
(*   - Text is a sequence of one-character strings.                        *)
(*   - A Python float is the exact rational [num, den]; a value produced   *)
(*     by round(x, 1) is an integer number of tenths (400 is 40.0).        *)
(*   - Optional[Dict] is [isNone, value]; a dict is a function whose       *)
(*     DOMAIN is its key set.                                              *)
(***************************************************************************)
EXTENDS Integers, Sequences, FiniteSets, TLC

VARIABLES
    FEATURE_REAL_AI,      \* settings.FEATURE_REAL_AI
    OPENAI_API_KEY,       \* settings.OPENAI_API_KEY
    client,               \* self.client (None = 0)
    pc,                   \* per task: "idle" or "probing" (suspended at the await)
    handle,               \* per task: the client its pending probe was issued on
    handles,              \* number of AsyncOpenAI objects constructed so far
    probeResult,          \* per handle: "unprobed", "pending", "ok", "failed"
    closed,               \* per handle: number of close() calls received
    last,                 \* the most recently returned initialize() call
    initDone,             \* number of initialize() calls that have returned
    firstClient,          \* self.client when the first initialize() returned
    overlapped,           \* some initialize() started while another was suspended
    conversation_history, \* argument of _generate_mock_analysis
    neural_data,          \* argument of _generate_mock_analysis
    analysis,             \* the returned report
    phase                 \* "input" while the caller builds the arguments, "done" after the call

lifecycleVars == <<FEATURE_REAL_AI, OPENAI_API_KEY, client, pc, handle, handles,
                   probeResult, closed, last, initDone, firstClient, overlapped>>
analysisVars == <<conversation_history, neural_data, analysis, phase>>
vars == <<FEATURE_REAL_AI, OPENAI_API_KEY, client, pc, handle, handles,
          probeResult, closed, last, initDone, firstClient, overlapped,
          conversation_history, neural_data, analysis, phase>>

----------------------------------------------------------------------------
(* Bounds *)
MaxTasks == 2
MaxHandles == 3
MaxClose == 2
MaxInit == 3

Tasks == 1..MaxTasks
Handles == 1..MaxHandles
None == 0

ApiKeys == {"demo-key", "sk-live"}
BackendErrors == {"AuthError", "RateLimitError", "NetworkError", "Timeout"}

----------------------------------------------------------------------------
(* Life cycle *)

\* line 45: the condition guarding live usage
LiveEnabled == FEATURE_REAL_AI /\ OPENAI_API_KEY # "demo-key"

\* line 58: "except Exception" catches every error of the backend taxonomy
CatchesTimeoutNot(err) == err # "Timeout"
Catches(err) == err \in BackendErrors

AllIdle == \A t \in Tasks : pc[t] = "idle"

Returned(probe, raised) ==
    /\ last' = [probe |-> probe, raised |-> raised]
    /\ initDone' = initDone + 1
    /\ firstClient' = IF initDone = 0 THEN client' ELSE firstClient

\* lines 55-56: live usage disabled, only a log line
InitializeDemo(t) ==
    /\ pc[t] = "idle"
    /\ initDone < MaxInit
    /\ ~LiveEnabled
    /\ client' = client
    /\ Returned("none", FALSE)
    /\ UNCHANGED <<FEATURE_REAL_AI, OPENAI_API_KEY, pc, handle, handles,
                   probeResult, closed, overlapped>>
    /\ UNCHANGED analysisVars

\* line 46 raises inside the try: lines 58-60 run
InitializeConstructFails(t) ==
    /\ pc[t] = "idle"
    /\ initDone < MaxInit
    /\ LiveEnabled
    /\ client' = None
    /\ Returned("none", FALSE)
    /\ UNCHANGED <<FEATURE_REAL_AI, OPENAI_API_KEY, pc, handle, handles,
                   probeResult, closed, overlapped>>
    /\ UNCHANGED analysisVars

\* lines 46-49: construct the client, store it, issue the probe and suspend
InitializeProbe(t) ==
    /\ pc[t] = "idle"
    /\ initDone < MaxInit
    /\ LiveEnabled
    /\ handles < MaxHandles
    /\ handles' = handles + 1
    /\ client' = handles + 1
    /\ handle' = [handle EXCEPT ![t] = handles + 1]
    /\ probeResult' = [probeResult EXCEPT ![handles + 1] = "pending"]
    /\ pc' = [pc EXCEPT ![t] = "probing"]
    /\ overlapped' = (overlapped \/ \E u \in Tasks : pc[u] = "probing")
    /\ UNCHANGED <<FEATURE_REAL_AI, OPENAI_API_KEY, closed, last, initDone, firstClient>>
    /\ UNCHANGED analysisVars

\* lines 49-54: the awaited round trip returns a response
ProbeSucceeds(t) ==
    /\ pc[t] = "probing"
    /\ pc' = [pc EXCEPT ![t] = "idle"]
    /\ probeResult' = [probeResult EXCEPT ![handle[t]] = "ok"]
    /\ client' = client
    /\ Returned("ok", FALSE)
    /\ UNCHANGED <<FEATURE_REAL_AI, OPENAI_API_KEY, handle, handles, closed, overlapped>>
    /\ UNCHANGED analysisVars

\* lines 49, 58-60: the awaited round trip raises err
ProbeFailsKeepsClient(t, err) ==
    /\ pc[t] = "probing"
    /\ pc' = [pc EXCEPT ![t] = "idle"]
    /\ probeResult' = [probeResult EXCEPT ![handle[t]] = "failed"]
    /\ client' = client
    /\ Returned("failed", FALSE)
    /\ UNCHANGED <<FEATURE_REAL_AI, OPENAI_API_KEY, handle, handles, closed, overlapped>>
    /\ UNCHANGED analysisVars
ProbeFails(t, err) ==
    /\ pc[t] = "probing"
    /\ pc' = [pc EXCEPT ![t] = "idle"]
    /\ probeResult' = [probeResult EXCEPT ![handle[t]] = "failed"]
    /\ client' = IF Catches(err) THEN None ELSE client
    /\ Returned("failed", ~Catches(err))
    /\ UNCHANGED <<FEATURE_REAL_AI, OPENAI_API_KEY, handle, handles, closed, overlapped>>
    /\ UNCHANGED analysisVars

\* lines 62-65
cleanup(t) ==
    /\ pc[t] = "idle"
    /\ IF client # None
          THEN /\ closed[client] < MaxClose
               /\ closed' = [closed EXCEPT ![client] = closed[client] + 1]
          ELSE closed' = closed
    /\ UNCHANGED <<FEATURE_REAL_AI, OPENAI_API_KEY, client, pc, handle, handles,
                   probeResult, last, initDone, firstClient, overlapped>>
    /\ UNCHANGED analysisVars

----------------------------------------------------------------------------
(* Text *)

UpperCase == <<"A", "B", "C", "D", "E", "F", "G", "H", "I", "J", "K", "L", "M",
               "N", "O", "P", "Q", "R", "S", "T", "U", "V", "W", "X", "Y", "Z">>
LowerCase == <<"a", "b", "c", "d", "e", "f", "g", "h", "i", "j", "k", "l", "m",
               "n", "o", "p", "q", "r", "s", "t", "u", "v", "w", "x", "y", "z">>

\* str.lower() (lines 72, 76)
lowerIdentity(text) == text
lower(text) ==
    [i \in DOMAIN text |->
        IF \E k \in DOMAIN UpperCase : UpperCase[k] = text[i]
           THEN LowerCase[CHOOSE k \in DOMAIN UpperCase : UpperCase[k] = text[i]]
           ELSE text[i]]

\* "word in text" on str (lines 72, 76): contiguous substring
In(word, text) ==
    \E i \in 1..(Len(text) - Len(word) + 1) :
        SubSeq(text, i, i + Len(word) - 1) = word

\* line 73
EmpathyWords ==
    << <<"u", "n", "d", "e", "r", "s", "t", "a", "n", "d">>,
       <<"f", "e", "e", "l">>,
       <<"s", "o", "r", "r", "y">>,
       <<"h", "e", "a", "r">> >>

\* line 77
DefensiveWords ==
    << <<"w", "r", "o", "n", "g">>,
       <<"n", "o", "t">>,
       <<"b", "u", "t">>,
       <<"h", "o", "w", "e", "v", "e", "r">> >>

\* dict.get(key, default) (lines 72, 76, 118-120)
get(d, key, default) == IF key \in DOMAIN d THEN d[key] ELSE default

\* exchange.get("user_message", "") (lines 72, 76)
user_message_or_ai_response(exchange) ==
    get(exchange, "user_message", get(exchange, "ai_response", << >>))
user_message(exchange) == get(exchange, "user_message", << >>)

\* any(word in exchange.get("user_message", "").lower() for word in words)
AnyWord(exchange, words) ==
    \E k \in DOMAIN words : In(words[k], lower(user_message(exchange)))

\* sum(1 for exchange in conversation_history if any(...)) (lines 71-77)
CountResponses(history, words) ==
    Cardinality({i \in DOMAIN history : AnyWord(history[i], words)})

----------------------------------------------------------------------------
(* Numbers: a float is the exact rational num/den with den > 0 *)

Rat(n, d) == [num |-> n, den |-> d]
Int2Rat(n) == Rat(n, 1)
RatAdd(x, y) == Rat(x.num * y.den + y.num * x.den, x.den * y.den)
RatSub(x, y) == Rat(x.num * y.den - y.num * x.den, x.den * y.den)
RatMul(x, y) == Rat(x.num * y.num, x.den * y.den)
RatDiv(x, y) == Rat(x.num * y.den, x.den * y.num)
RatLeq(x, y) == x.num * y.den <= y.num * x.den
RatMax(x, y) == IF RatLeq(x, y) THEN y ELSE x
RatMin(x, y) == IF RatLeq(x, y) THEN x ELSE y
IntMax(a, b) == IF a >= b THEN a ELSE b

\* round-half-to-even of the non-negative rational n/d to an integer
RoundHalfEven(n, d) ==
    LET q == n \div d
        r == n % d
    IN  IF 2 * r < d THEN q
        ELSE IF 2 * r > d THEN q + 1
        ELSE IF q % 2 = 0 THEN q ELSE q + 1

\* round(x, 1) (lines 91-94), in tenths
Round1(x) == RoundHalfEven(10 * x.num, x.den)

\* round(x) (lines 110-111)
Round0(x) == RoundHalfEven(x.num, x.den)

\* f"{round(x)}%" (lines 110-111)
Percent(x) == ToString(Round0(x)) \o "%"

----------------------------------------------------------------------------
(* _generate_mock_analysis, lines 67-123 *)

\* line 80
empathy_score(empathetic_responses, total_exchanges) ==
    RatMul(Rat(empathetic_responses, IntMax(total_exchanges, 1)), Int2Rat(100))

\* line 81
stress_reduction_unfloored(defensive_responses, total_exchanges) ==
    RatSub(Int2Rat(100),
           RatMul(Rat(defensive_responses, IntMax(total_exchanges, 1)), Int2Rat(100)))
stress_reduction(defensive_responses, total_exchanges) ==
    RatMax(Int2Rat(20),
           RatSub(Int2Rat(100),
                  RatMul(Rat(defensive_responses, IntMax(total_exchanges, 1)),
                         Int2Rat(100))))

\* line 88
communication_pattern_geq(empathetic_responses, defensive_responses) ==
    IF empathetic_responses >= defensive_responses THEN "improving" ELSE "needs_work"
communication_pattern(empathetic_responses, defensive_responses) ==
    IF empathetic_responses > defensive_responses THEN "improving" ELSE "needs_work"

\* line 93
emotional_regulation_of_rounded(es, sr) ==
    Round1(Rat(Round1(es) + Round1(sr), 20))
emotional_regulation(es, sr) == Round1(RatDiv(RatAdd(es, sr), Int2Rat(2)))

\* line 94
communication_effectiveness(es) == Round1(RatMin(Int2Rat(95), RatMul(es, Rat(12, 10))))

\* line 109
new_pathways_formed(total_exchanges, empathetic_responses) ==
    total_exchanges * 3 + empathetic_responses * 2

\* lines 96-101
Insights ==
    << "User showed improved empathetic responding during conflict",
       "Stress levels decreased as conversation progressed",
       "Neural pathways for emotional regulation strengthened",
       "Communication pattern shifted from defensive to collaborative" >>

\* lines 102-107
Recommendations ==
    << "Continue practicing active listening techniques",
       "Focus on emotional validation before problem-solving",
       "Develop pause-and-reflect responses to reduce reactivity",
       "Practice perspective-taking exercises" >>

\* line 116: truthiness of Optional[Dict]
Truthy(nd) == ~nd.isNone /\ DOMAIN nd.value # {}

\* lines 117-121
neural_correlation(nd) ==
    [avg_stress_during_training |-> get(nd.value, "avg_stress", 35),
     peak_empathy_activation |-> get(nd.value, "peak_empathy", 82),
     emotional_regulation_consistency |-> get(nd.value, "regulation", 78)]

_generate_mock_analysis(history, nd) ==
    LET total_exchanges == Len(history)
        empathetic_responses == CountResponses(history, EmpathyWords)
        defensive_responses == CountResponses(history, DefensiveWords)
        es == empathy_score(empathetic_responses, total_exchanges)
        sr == stress_reduction(defensive_responses, total_exchanges)
        report ==
            [conversation_summary |->
                [total_exchanges |-> total_exchanges,
                 empathetic_responses |-> empathetic_responses,
                 defensive_responses |-> defensive_responses,
                 communication_pattern |->
                     communication_pattern(empathetic_responses, defensive_responses)],
             metrics |->
                [empathy_score |-> Round1(es),
                 stress_reduction |-> Round1(sr),
                 emotional_regulation |-> emotional_regulation(es, sr),
                 communication_effectiveness |-> communication_effectiveness(es)],
             insights |-> Insights,
             recommendations |-> Recommendations,
             neural_improvements |->
                [new_pathways_formed |->
                     new_pathways_formed(total_exchanges, empathetic_responses),
                 stress_response_reduction |-> Percent(sr),
                 empathy_network_strengthening |-> Percent(es),
                 prefrontal_cortex_activation |-> "increased by 34%"]]
    IN  IF Truthy(nd)
           THEN report @@ ("neural_correlation" :> neural_correlation(nd))
           ELSE report

----------------------------------------------------------------------------
(* Inputs of the analysis *)

MaxLen == 3

MsgOk == <<"o", "k">>
MsgMisunderstand == <<"I", " ", "m", "i", "s", "u", "n", "d", "e", "r", "s", "t", "a", "n", "d">>
MsgSorryUpper == <<"S", "O", "R", "R", "Y">>
MsgHearBut == <<"I", " ", "H", "e", "a", "r", ",", " ", "B", "U", "T">>
MsgWrong == <<"Y", "o", "u", " ", "a", "r", "e", " ", "W", "r", "o", "n", "g">>
MsgFeelSorry == <<"f", "e", "e", "l", " ", "s", "o", "r", "r", "y">>
MsgNothing == <<"n", "o", "t", "h", "i", "n", "g">>
MsgNearMiss == <<"u", "n", "d", "e", "r", " ", "s", "t", "a", "n", "d", ",", " ",
                 "h", "o", "w", " ", "e", "v", "e", "r">>
MsgAiKeywords == <<"I", " ", "u", "n", "d", "e", "r", "s", "t", "a", "n", "d", " ", "b", "u", "t">>

ExOk == [user_message |-> MsgOk]
ExMisunderstand == [user_message |-> MsgMisunderstand, ai_response |-> MsgOk]
ExSorryUpper == [user_message |-> MsgSorryUpper]
ExHearBut == [user_message |-> MsgHearBut]
ExWrong == [user_message |-> MsgWrong]
ExFeelSorry == [user_message |-> MsgFeelSorry]
ExNothing == [user_message |-> MsgNothing]
ExNearMiss == [user_message |-> MsgNearMiss]
ExAiKeywords == [user_message |-> MsgOk, ai_response |-> MsgAiKeywords]
ExNoUserMessage == [ai_response |-> MsgAiKeywords]

\* the exchanges a caller records one at a time
Exchanges ==
    {ExOk, ExMisunderstand, ExSorryUpper, ExHearBut, ExWrong, ExNothing,
     ExAiKeywords, ExNoUserMessage}

\* 10 exchanges: 4 with an empathy keyword, 2 with a defensiveness keyword, none with both
Scenario10 ==
    <<ExMisunderstand, ExOk, ExWrong, ExSorryUpper, ExNearMiss, ExFeelSorry,
      ExNothing, ExAiKeywords, ExMisunderstand, ExNoUserMessage>>

\* 8 exchanges, 1 with an empathy keyword: emotional_regulation is exactly 56.25
Scenario8 == <<ExSorryUpper, ExOk, ExOk, ExOk, ExOk, ExOk, ExOk, ExOk>>

Histories == {<< >>, Scenario10, Scenario8}

NoTelemetry == [isNone |-> TRUE, value |-> << >>]
Telemetry ==
    {[isNone |-> FALSE, value |-> << >>],
     [isNone |-> FALSE, value |-> ("avg_stress" :> 50)],
     [isNone |-> FALSE, value |-> ("peak_empathy" :> 0) @@ ("regulation" :> 91)],
     [isNone |-> FALSE,
      value |-> ("avg_stress" :> 12) @@ ("peak_empathy" :> 40) @@ ("regulation" :> 60)
                @@ ("heart_rate" :> 70)]}

----------------------------------------------------------------------------
(* Specifications *)

\* lines 16-18 and the settings loaded at start-up
LifecycleInit ==
    /\ FEATURE_REAL_AI \in BOOLEAN
    /\ OPENAI_API_KEY \in ApiKeys
    /\ client = None
    /\ pc = [t \in Tasks |-> "idle"]
    /\ handle = [t \in Tasks |-> None]
    /\ handles = 0
    /\ probeResult = [h \in Handles |-> "unprobed"]
    /\ closed = [h \in Handles |-> 0]
    /\ last = [probe |-> "none", raised |-> FALSE]
    /\ initDone = 0
    /\ firstClient = None
    /\ overlapped = FALSE

AnalysisIdle ==
    /\ conversation_history = << >>
    /\ neural_data = NoTelemetry
    /\ analysis = << >>
    /\ phase = "input"

Init == LifecycleInit /\ AnalysisIdle

\* no other call is suspended: calls are made one after the other
Solo(t) == \A u \in Tasks \ {t} : pc[u] = "idle"

Next ==
    \E t \in Tasks :
        \/ Solo(t) /\ InitializeDemo(t)
        \/ Solo(t) /\ InitializeConstructFails(t)
        \/ Solo(t) /\ InitializeProbe(t)
        \/ Solo(t) /\ ProbeSucceeds(t)
        \/ Solo(t) /\ \E err \in BackendErrors : ProbeFails(t, err)
        \/ Solo(t) /\ cleanup(t)

Spec == Init /\ [][Next]_vars

\* calls run as concurrent tasks that interleave at the await of line 49
NextConc ==
    \E t \in Tasks :
        \/ InitializeDemo(t)
        \/ InitializeConstructFails(t)
        \/ InitializeProbe(t)
        \/ ProbeSucceeds(t)
        \/ \E err \in BackendErrors : ProbeFails(t, err)
        \/ cleanup(t)

SpecConc == Init /\ [][NextConc]_vars

----------------------------------------------------------------------------
(* Analysis requests *)

\* the caller records one more exchange in the history it owns
AddExchange(exchange) ==
    /\ phase = "input"
    /\ Len(conversation_history) < MaxLen
    /\ conversation_history' = Append(conversation_history, exchange)
    /\ UNCHANGED <<neural_data, analysis, phase>>
    /\ UNCHANGED lifecycleVars

\* the caller supplies telemetry
SetTelemetry(nd) ==
    /\ phase = "input"
    /\ neural_data.isNone
    /\ neural_data' = nd
    /\ UNCHANGED <<conversation_history, analysis, phase>>
    /\ UNCHANGED lifecycleVars

\* lines 67-123
Analyze ==
    /\ phase = "input"
    /\ analysis' = _generate_mock_analysis(conversation_history, neural_data)
    /\ phase' = "done"
    /\ UNCHANGED <<conversation_history, neural_data>>
    /\ UNCHANGED lifecycleVars

\* the next request starts from a fresh history
NewRequest ==
    /\ phase = "done"
    /\ conversation_history' = << >>
    /\ neural_data' = NoTelemetry
    /\ analysis' = << >>
    /\ phase' = "input"
    /\ UNCHANGED lifecycleVars

InitAnalysis ==
    /\ LifecycleInit
    /\ ~FEATURE_REAL_AI
    /\ OPENAI_API_KEY = "demo-key"
    /\ conversation_history \in Histories
    /\ neural_data = NoTelemetry
    /\ analysis = << >>
    /\ phase = "input"

NextAnalysis ==
    \/ \E exchange \in Exchanges : AddExchange(exchange)
    \/ \E nd \in Telemetry : SetTelemetry(nd)
    \/ Analyze
    \/ NewRequest

SpecAnalysis == InitAnalysis /\ [][NextAnalysis]_vars

----------------------------------------------------------------------------
(* Life-cycle properties *)

\* C2: every retained client handle receives at most one close(), so a
\* cleanup() that follows a cleanup() closes nothing.
CleanupReleasesOnce == \A h \in Handles : closed[h] <= 1

\* C3: once a first initialize() has returned, every later initialize()
\* leaves self.client as the first call left it.
InitializeIdempotent == (initDone >= 1 /\ AllIdle) => client = firstClient

\* C4: an initialize() call run on its own never raises, issues at most one
\* backend round trip and none when live usage is disabled, and leaves a
\* client retained exactly when live usage is enabled and its probe succeeded.
ProbeDefiniteMode ==
    /\ handles <= initDone + Cardinality({t \in Tasks : pc[t] = "probing"})
    /\ ~LiveEnabled => handles = 0 /\ client = None
    /\ (initDone >= 1 /\ AllIdle) =>
          /\ ~last.raised
          /\ (client # None) <=> (LiveEnabled /\ last.probe = "ok")

ProbeFailedSeen ==
    /\ AllIdle
    /\ initDone = 1
    /\ LiveEnabled
    /\ last.probe = "failed"
    /\ handles = 1
    /\ client = None

\* C10: with initialize() calls interleaving at their awaits, whenever none
\* is in flight a retained client is one whose own probe succeeded.
HandleVerified == (AllIdle /\ client # None) => probeResult[client] = "ok"

InterleavedRetained ==
    /\ AllIdle
    /\ overlapped
    /\ client # None
    /\ \E h \in Handles : probeResult[h] = "failed"

----------------------------------------------------------------------------
(* Analysis properties *)

RequiredKeys ==
    {"conversation_summary", "metrics", "insights", "recommendations", "neural_improvements"}

Summary == analysis.conversation_summary
Metrics == analysis.metrics

\* exchanges whose user message holds an empathy keyword, classified by hand
ExpectedEmpathetic == {ExMisunderstand, ExSorryUpper, ExHearBut, ExFeelSorry}
\* exchanges whose user message holds a defensiveness keyword, classified by hand
ExpectedDefensive == {ExHearBut, ExWrong, ExNothing}

NumEmpathetic ==
    Cardinality({i \in DOMAIN conversation_history :
                    conversation_history[i] \in ExpectedEmpathetic})
NumDefensive ==
    Cardinality({i \in DOMAIN conversation_history :
                    conversation_history[i] \in ExpectedDefensive})

Abs(x) == IF x >= 0 THEN x ELSE -x
\* m tenths is a nearest one-decimal value of num/den
Nearest(m, num, den) == 2 * Abs(m * den - 10 * num) <= den

\* C1: whenever telemetry is supplied (the empty mapping included) the report
\* has neural_correlation, each signal being the supplied value or else its
\* default 35 / 82 / 78.
TelemetryDefaulting ==
    (phase = "done" /\ ~neural_data.isNone) =>
        /\ "neural_correlation" \in DOMAIN analysis
        /\ analysis.neural_correlation.avg_stress_during_training =
              (IF "avg_stress" \in DOMAIN neural_data.value
                  THEN neural_data.value["avg_stress"] ELSE 35)
        /\ analysis.neural_correlation.peak_empathy_activation =
              (IF "peak_empathy" \in DOMAIN neural_data.value
                  THEN neural_data.value["peak_empathy"] ELSE 82)
        /\ analysis.neural_correlation.emotional_regulation_consistency =
              (IF "regulation" \in DOMAIN neural_data.value
                  THEN neural_data.value["regulation"] ELSE 78)

\* C5: every report has all required keys and every metric lies in [0, 100],
\* with stress_reduction >= 20 and communication_effectiveness <= 95.
ReportWithinBounds ==
    phase = "done" =>
        /\ RequiredKeys \subseteq DOMAIN analysis
        /\ DOMAIN Metrics = {"empathy_score", "stress_reduction", "emotional_regulation",
                             "communication_effectiveness"}
        /\ \A k \in DOMAIN Metrics : Metrics[k] \in 0..1000
        /\ Metrics.stress_reduction >= 200
        /\ Metrics.communication_effectiveness <= 950

FloorAndCeilingReached ==
    /\ phase = "done"
    /\ Len(conversation_history) > 0
    /\ Metrics.stress_reduction = 200
    /\ Metrics.communication_effectiveness = 950

\* C6: communication_pattern is "improving" exactly when the reported
\* empathetic_responses exceed the reported defensive_responses, and is
\* "needs_work" otherwise.
PatternIffStrictlyMore ==
    phase = "done" =>
        /\ Summary.communication_pattern \in {"improving", "needs_work"}
        /\ Summary.communication_pattern = "improving"
              <=> Summary.empathetic_responses > Summary.defensive_responses

TieNeedsWork ==
    /\ phase = "done"
    /\ Summary.empathetic_responses >= 1
    /\ Summary.empathetic_responses = Summary.defensive_responses
    /\ Summary.communication_pattern = "needs_work"

\* the history with "" supplied wherever user_message is missing
WithEmptyMessages(history) ==
    [i \in DOMAIN history |->
        IF "user_message" \in DOMAIN history[i]
           THEN history[i]
           ELSE history[i] @@ ("user_message" :> << >>)]

\* C7: a history with exchanges lacking user_message yields a complete report
\* in which those exchanges count toward total_exchanges only, exactly as if
\* their user_message were the empty string.
MalformedAbsorbed ==
    (phase = "done" /\ \E i \in DOMAIN conversation_history :
                          "user_message" \notin DOMAIN conversation_history[i]) =>
        LET WellFormed == {i \in DOMAIN conversation_history :
                              "user_message" \in DOMAIN conversation_history[i]}
        IN  /\ RequiredKeys \subseteq DOMAIN analysis
            /\ Summary.total_exchanges = Len(conversation_history)
            /\ Summary = _generate_mock_analysis(WithEmptyMessages(conversation_history),
                                                 neural_data).conversation_summary
            /\ WellFormed = {} =>
                  Summary.empathetic_responses = 0 /\ Summary.defensive_responses = 0

MalformedAnalyzed ==
    /\ phase = "done"
    /\ Len(conversation_history) = 3
    /\ \E i \in DOMAIN conversation_history : conversation_history[i] = ExNoUserMessage
    /\ Summary.total_exchanges = 3
    /\ Summary.empathetic_responses = 1
    /\ Summary.defensive_responses = 0

\* C8: the report is the documented function of n, e and d, each metric
\* rounded to one decimal; 10/4/2 gives 40.0, 80.0, 60.0, 48.0, improving, 38
\* and the empty history gives 0, 0.0, 100.0, needs_work.
ReportIsFunctionOfCounts ==
    phase = "done" =>
        LET n == Len(conversation_history)
            e == NumEmpathetic
            d == NumDefensive
            N == IF n >= 1 THEN n ELSE 1
            sr == IF 100 * (N - d) >= 20 * N THEN 100 * (N - d) ELSE 20 * N
            ce == IF 120 * e <= 95 * N THEN 120 * e ELSE 95 * N
        IN  /\ Summary.total_exchanges = n
            /\ Summary.empathetic_responses = e
            /\ Summary.defensive_responses = d
            /\ Nearest(Metrics.empathy_score, 100 * e, N)
            /\ Nearest(Metrics.stress_reduction, sr, N)
            /\ Nearest(Metrics.emotional_regulation, 100 * e + sr, 2 * N)
            /\ Nearest(Metrics.communication_effectiveness, ce, N)
            /\ analysis.neural_improvements.new_pathways_formed = 3 * n + 2 * e
            /\ conversation_history = Scenario10 =>
                  /\ n = 10 /\ e = 4 /\ d = 2
                  /\ Metrics = [empathy_score |-> 400, stress_reduction |-> 800,
                                emotional_regulation |-> 600,
                                communication_effectiveness |-> 480]
                  /\ Summary.communication_pattern = "improving"
                  /\ analysis.neural_improvements.new_pathways_formed = 38
            /\ conversation_history = << >> =>
                  /\ Summary.total_exchanges = 0
                  /\ Metrics.empathy_score = 0
                  /\ Metrics.stress_reduction = 1000
                  /\ Summary.communication_pattern = "needs_work"

Scenario10Analyzed ==
    /\ phase = "done"
    /\ conversation_history = Scenario10
    /\ Metrics.empathy_score = 400

\* c1 and c2 are the same letter, whatever their case
SameLetter(c1, c2) ==
    \/ c1 = c2
    \/ \E k \in DOMAIN UpperCase :
          {c1, c2} = {UpperCase[k], LowerCase[k]}

\* word occurs in text as a contiguous run of letters, case ignored
Occurs(word, text) ==
    \E off \in 0..(Len(text) - Len(word)) :
        \A j \in 1..Len(word) : SameLetter(text[off + j], word[j])

HasKeyword(exchange, words) ==
    /\ "user_message" \in DOMAIN exchange
    /\ \E k \in DOMAIN words : Occurs(words[k], exchange.user_message)

\* C9: an exchange adds exactly 1 to empathetic_responses iff its user
\* message holds an empathy keyword as a case-insensitive substring, and
\* independently 1 to defensive_responses iff it holds a defensiveness
\* keyword; ai_response is never inspected.
KeywordCounting ==
    phase = "done" =>
        /\ Summary.empathetic_responses =
              Cardinality({i \in DOMAIN conversation_history :
                              HasKeyword(conversation_history[i], EmpathyWords)})
        /\ Summary.defensive_responses =
              Cardinality({i \in DOMAIN conversation_history :
                              HasKeyword(conversation_history[i], DefensiveWords)})
        /\ Summary.empathetic_responses = NumEmpathetic
        /\ Summary.defensive_responses = NumDefensive

SubstringBothAndAiSeen ==
    /\ phase = "done"
    /\ conversation_history = <<ExMisunderstand, ExHearBut, ExAiKeywords>>
    /\ Summary.empathetic_responses = 2
    /\ Summary.defensive_responses = 1

====
